---------------------------- MODULE Spec2Model ----------------------------
(***************************************************************************)
(* Model of hooks/pre_tool_use.py, the pre-tool-use hook of the            *)
(* orange-hill-engineering plugin.  One run of the hook reads a JSON       *)
(* document from standard input, and prints an approve or block record.    *)
(*                                                                         *)
(* Text that the hook only passes along (messages, pattern texts) is a     *)
(* TLA+ string.  Text that the hook looks into (the command, the tool      *)
(* name) is a sequence of one-character strings, so that the regular       *)
(* expression search can be computed character by character.               *)
(***************************************************************************)
EXTENDS Integers, Sequences, FiniteSets, TLC

VARIABLES
    DANGEROUS_RM_PATTERNS,  \* the module-level rule list (lines 14-23)
    stdin,                  \* the document on standard input
    pc,                     \* position of main()
    input_data,             \* local of main (line 35)
    tool_name,              \* local of main (line 37)
    tool_input,             \* local of main (line 38)
    command,                \* local of main (line 46)
    verdict,                \* (is_dangerous, reason) of line 49
    exc,                    \* the exception raised inside the try block, if any
    stdout,                 \* records printed to standard output
    stderr,                 \* records printed to standard error
    exit_status,            \* exit status of the process, -1 while it runs
    history                 \* (request, decision) pairs of the runs finished so far

vars == <<DANGEROUS_RM_PATTERNS, stdin, pc, input_data, tool_name, tool_input,
          command, verdict, exc, stdout, stderr, exit_status, history>>

-----------------------------------------------------------------------------
(* Bounds of the model *)

\* Longest run of blanks and line feeds put between two tokens of a command.
MaxWs == 2

-----------------------------------------------------------------------------
(* JSON values, as json.loads builds them *)

JNull == [type |-> "null"]
JNumber == [type |-> "number"]
JArray == [type |-> "array"]
JStr(chars) == [type |-> "string", chars |-> chars]
JObject(members) == [type |-> "object", members |-> members]

\* A local variable that has not been assigned yet.
Unset == [type |-> "unset"]
\* No exception has been raised.
NoException == [class |-> "none", msg |-> ""]

\* type(v).__name__ of the Python value json.loads returns for v.
PyTypeName(v) ==
    CASE v.type = "null" -> "NoneType"
      [] v.type = "number" -> "int"
      [] v.type = "array" -> "list"
      [] v.type = "string" -> "str"
      [] v.type = "object" -> "dict"

Return(v) == [raised |-> FALSE, value |-> v]
Raise(class, msg) == [raised |-> TRUE, exc |-> [class |-> class, msg |-> msg]]

\* json.loads(sys.stdin.read()): a document that is not valid JSON raises
\* JSONDecodeError with the decoder's message; a valid one yields its value.
json_loads(doc) ==
    IF doc.valid THEN Return(doc.value) ELSE Raise("JSONDecodeError", doc.error)

\* obj.get(key, default): only a dict has .get; any other value raises
\* AttributeError.
dict_get(obj, key, default) ==
    IF obj.type = "object"
    THEN Return(IF key \in DOMAIN obj.members THEN obj.members[key] ELSE default)
    ELSE Raise("AttributeError",
               "'" \o PyTypeName(obj) \o "' object has no attribute 'get'")

-----------------------------------------------------------------------------
(* Characters *)

UpperToLower ==
    [A |-> "a", B |-> "b", C |-> "c", D |-> "d", E |-> "e", F |-> "f", G |-> "g",
     H |-> "h", I |-> "i", J |-> "j", K |-> "k", L |-> "l", M |-> "m", N |-> "n",
     O |-> "o", P |-> "p", Q |-> "q", R |-> "r", S |-> "s", T |-> "t", U |-> "u",
     V |-> "v", W |-> "w", X |-> "x", Y |-> "y", Z |-> "z"]

\* str.lower() of one character.
Lower(c) == IF c \in DOMAIN UpperToLower THEN UpperToLower[c] ELSE c

\* str.upper() of one character.
Upper(c) ==
    IF \E u \in DOMAIN UpperToLower : UpperToLower[u] = c
    THEN CHOOSE u \in DOMAIN UpperToLower : UpperToLower[u] = c
    ELSE c

\* The characters \s matches, among those the commands here are made of.
\* (Python's \s takes the vertical tab and the Unicode spaces as well.)
IsSpace(c) == c \in {" ", "\t", "\n", "\r", "\f"}

\* The characters . matches without re.DOTALL: all but the line feed.
IsDot(c) == c # "\n"

-----------------------------------------------------------------------------
(* Regular expressions: the three kinds of element the eight patterns use *)

Lit(c) == [kind |-> "lit", ch |-> c]
Ws1 == [kind |-> "ws+"]
DotStar == [kind |-> "dot*"]

Lits(chars) == [i \in 1..Len(chars) |-> Lit(chars[i])]

\* One literal against one character with the flag ignored.
CaseSensitiveLit(p, c, ignorecase) == p = c

\* One literal against one character; re.IGNORECASE compares case-folded.
MatchLit(p, c, ignorecase) ==
    IF ignorecase THEN Lower(p) = Lower(c) ELSE p = c

\* A pattern written with one blank where the source has \s+.
SingleBlankRun(s, j) ==
    IF j <= Len(s) /\ s[j] = " " THEN {1} ELSE {}

\* \s+ : the lengths k >= 1 of whitespace runs s[j..j+k-1].
WsRunLengths(s, j) ==
    {k \in 1..(Len(s) - j + 1) : \A m \in j..(j + k - 1) : IsSpace(s[m])}

\* .* : the lengths k >= 0 of runs s[j..j+k-1] without a line feed.
DotRunLengths(s, j) ==
    {k \in 0..(Len(s) - j + 1) : \A m \in j..(j + k - 1) : IsDot(s[m])}

\* Whether elements i.. of re match a prefix of s[j..].
RECURSIVE MatchHere(_, _, _, _, _)
MatchHere(re, i, s, j, ignorecase) ==
    IF i > Len(re) THEN TRUE
    ELSE CASE re[i].kind = "lit" ->
                /\ j <= Len(s)
                /\ MatchLit(re[i].ch, s[j], ignorecase)
                /\ MatchHere(re, i + 1, s, j + 1, ignorecase)
           [] re[i].kind = "ws+" ->
                \E k \in WsRunLengths(s, j) : MatchHere(re, i + 1, s, j + k, ignorecase)
           [] re[i].kind = "dot*" ->
                \E k \in DotRunLengths(s, j) : MatchHere(re, i + 1, s, j + k, ignorecase)

\* re.search(pattern, string, re.IGNORECASE): a match starting anywhere in the
\* string; a string that is not a str raises TypeError.
re_search(pattern, string, ignorecase) ==
    IF string.type # "string"
    THEN Raise("TypeError", "expected string or bytes-like object, got '"
                            \o PyTypeName(string) \o "'")
    ELSE Return(\E j \in 1..(Len(string.chars) + 1) :
                    MatchHere(pattern.re, 1, string.chars, j, ignorecase))

-----------------------------------------------------------------------------
(* The rule list, lines 14-23: each pattern's text and its compiled form *)

RmWs == Lits(<<"r", "m">>) \o <<Ws1>>
RmRfWs == RmWs \o Lits(<<"-", "r", "f">>) \o <<Ws1>>

\* Rule 8 written like rule 7, with \s+ before the / instead of .*
RecursiveOnlyRoot ==
    [text |-> "rm\\s+--recursive.*/",
     re |-> RmWs \o Lits(<<"-", "-", "r", "e", "c", "u", "r", "s", "i", "v", "e">>)
            \o <<Ws1>> \o Lits(<<"/">>)]

\* Line 22: rm\s+--recursive.*/
PatternRecursive ==
    [text |-> "rm\\s+--recursive.*/",
     re |-> RmWs \o Lits(<<"-", "-", "r", "e", "c", "u", "r", "s", "i", "v", "e">>)
            \o <<DotStar>> \o Lits(<<"/">>)]

DangerousRmPatternList ==
    << [text |-> "rm\\s+-rf\\s+/", re |-> RmRfWs \o Lits(<<"/">>)],
       [text |-> "rm\\s+-rf\\s+~", re |-> RmRfWs \o Lits(<<"~">>)],
       [text |-> "rm\\s+-rf\\s+\\$HOME", re |-> RmRfWs \o Lits(<<"$", "H", "O", "M", "E">>)],
       [text |-> "rm\\s+-rf\\s+\\.\\.", re |-> RmRfWs \o Lits(<<".", ".">>)],
       [text |-> "rm\\s+-rf\\s+\\*", re |-> RmRfWs \o Lits(<<"*">>)],
       [text |-> "rm\\s+-rf\\s+\\.", re |-> RmRfWs \o Lits(<<".">>)],
       [text |-> "rm\\s+-r\\s+-f\\s+/",
        re |-> RmWs \o Lits(<<"-", "r">>) \o <<Ws1>> \o Lits(<<"-", "f">>)
               \o <<Ws1>> \o Lits(<<"/">>)],
       PatternRecursive >>

BlockedPrefix == "Blocked dangerous rm command matching: "

\* check_dangerous_command, lines 25-30: the loop from rule i on.  The search
\* of a command that is not a str raises out of the loop.
RECURSIVE CheckFrom(_, _, _)
CheckFrom(patterns, i, cmd) ==
    IF i > Len(patterns) THEN Return(<<FALSE, "">>)
    ELSE LET m == re_search(patterns[i], cmd, TRUE)
         IN  IF m.raised THEN m
             ELSE IF m.value THEN Return(<<TRUE, BlockedPrefix \o patterns[i].text>>)
             ELSE CheckFrom(patterns, i + 1, cmd)

\* The same loop keeping the last matching rule instead of the first.
RECURSIVE LastMatchFrom(_, _, _)
LastMatchFrom(patterns, i, cmd) ==
    IF i > Len(patterns) THEN Return(<<FALSE, "">>)
    ELSE LET m == re_search(patterns[i], cmd, TRUE)
             rest == LastMatchFrom(patterns, i + 1, cmd)
         IN  IF m.raised THEN m
             ELSE IF rest.value[1] THEN rest
             ELSE IF m.value THEN Return(<<TRUE, BlockedPrefix \o patterns[i].text>>)
             ELSE rest

check_last_match(patterns, cmd) == LastMatchFrom(patterns, 1, cmd)

\* check_dangerous_command(command), reading the module-level list.
check_dangerous_command(patterns, cmd) == CheckFrom(patterns, 1, cmd)

-----------------------------------------------------------------------------
(* The documents a run may find on standard input *)

Bash == <<"B", "a", "s", "h">>
Rm == <<"r", "m">>
FlagRf == <<"-", "r", "f">>
FlagR == <<"-", "r">>
FlagF == <<"-", "f">>
FlagFr == <<"-", "f", "r">>
FlagRecursive == <<"-", "-", "r", "e", "c", "u", "r", "s", "i", "v", "e">>
Root == <<"/">>
Home == <<"$", "H", "O", "M", "E">>
FileTxt == <<"f", "i", "l", "e", ".", "t", "x", "t">>
TmpSafe == <<"/", "t", "m", "p", "/", "s", "a", "f", "e">>
FooSlash == <<"f", "o", "o", "/">>
FooBar == <<"f", "o", "o", "/", "b", "a", "r">>
Foo == <<"f", "o", "o">>
LsLaHome == <<"l", "s", " ", "-", "l", "a", " ", "/", "h", "o", "m", "e">>
AndEchoDone == <<" ", "&", "&", " ", "e", "c", "h", "o", " ", "d", "o", "n", "e">>
ThenLsRoot == <<";", " ", "l", "s", " ", "/">>
EchoHiThen == <<"e", "c", "h", "o", " ", "h", "i", ";", " ">>

\* The delete targets of rules 1 to 6, in rule order.
RuleTargets == <<Root, <<"~">>, Home, <<".", ".">>, <<"*">>, <<".">>>>

Targets ==
    {RuleTargets[i] : i \in 1..Len(RuleTargets)}
        \cup {FileTxt, TmpSafe, FooSlash, FooBar, Foo}

\* The flag tokens that follow rm: the three forms the rules know, and others.
RuleFlags == {<<FlagRf>>, <<FlagR, FlagF>>, <<FlagRecursive>>}
Flags == RuleFlags \cup {<<FlagFr>>, <<FlagR>>, <<>>}

Prefixes == {<<>>, <<"x">>, EchoHiThen}
Suffixes == {<<>>, AndEchoDone, ThenLsRoot, <<"\n", "/">>}

\* Runs of blanks and line feeds up to MaxWs long, and a lone tab or return.
RECURSIVE RunsOfLength(_)
RunsOfLength(n) ==
    IF n = 0 THEN {<<>>}
    ELSE {<<c>> \o r : c \in {" ", "\n"}, r \in RunsOfLength(n - 1)}
WsRuns ==
    UNION {RunsOfLength(n) : n \in 1..MaxWs} \cup {<<"\t">>, <<"\r">>}

\* tokens[1] gaps[1] tokens[2] gaps[2] ... tokens[n]
RECURSIVE JoinWith(_, _)
JoinWith(tokens, gaps) ==
    IF tokens = <<>> THEN <<>>
    ELSE IF Len(tokens) = 1 THEN tokens[1]
    ELSE tokens[1] \o gaps[1] \o JoinWith(Tail(tokens), Tail(gaps))

SingleSpaces(n) == [i \in 1..n |-> <<" ">>]
JoinSpace(tokens) == JoinWith(tokens, SingleSpaces(Len(tokens)))

UpperAll(s) == [i \in 1..Len(s) |-> Upper(s[i])]
LowerAll(s) == [i \in 1..Len(s) |-> Lower(s[i])]
Alternate(s) == [i \in 1..Len(s) |-> IF i % 2 = 1 THEN Upper(s[i]) ELSE s[i]]
CaseVariants(s) == {s, UpperAll(s), Alternate(s)}

\* rm, flags and a target with every choice of whitespace between them; the
\* separated flags, which have three gaps, with three of the targets.
SpacedCommands ==
    {JoinWith(<<Rm>> \o f \o <<t>>, g) :
        f \in {<<FlagRf>>, <<FlagRecursive>>}, t \in Targets,
        g \in [1..2 -> WsRuns]}
    \cup
    {JoinWith(<<Rm, FlagR, FlagF, t>>, g) :
        t \in {Root, <<"~">>, Foo}, g \in [1..3 -> WsRuns]}

\* The same with single blanks, in three letter cases, inside other text.
EmbeddedCommands ==
    {p \o c \o s :
        p \in Prefixes, s \in Suffixes,
        c \in UNION {CaseVariants(JoinSpace(<<Rm>> \o f \o <<t>>)) :
                        f \in Flags, t \in Targets}}

\* Two deletes in one command, the one of the later rule first in the text.
StarThenRoot ==
    JoinSpace(<<Rm, FlagRf, <<"*">>, <<";">>, Rm, FlagRf, Root>>)
RecursiveThenHome ==
    JoinSpace(<<Rm, FlagRecursive, FooSlash, <<";">>, Rm, FlagRf, <<"~">>>>)

OtherCommands ==
    {<<>>, LsLaHome, Rm \o FlagRf \o Root, JoinSpace(<<Rm, FlagRf>>),
     JoinSpace(<<Rm, FlagRecursive>>), <<" ">> \o JoinSpace(<<Rm, FlagRf, Root>>),
     StarThenRoot, RecursiveThenHome}

Commands == SpacedCommands \cup EmbeddedCommands \cup OtherCommands

\* A key that the object does not hold.
Absent == [type |-> "absent"]

Members(name, input) ==
    (IF name = Absent THEN <<>> ELSE [tool_name |-> name])
        @@ (IF input = Absent THEN <<>> ELSE [tool_input |-> input])

Document(v) == [valid |-> TRUE, value |-> v]

InvalidDocuments ==
    {[valid |-> FALSE, error |-> "Expecting value: line 1 column 1 (char 0)"],
     [valid |-> FALSE,
      error |-> "Expecting property name enclosed in double quotes: line 1 column 2 (char 1)"]}

NotObjectDocuments == {Document(v) : v \in {JNull, JNumber, JArray, JStr(Bash)}}

RmRfRoot == JStr(JoinSpace(<<Rm, FlagRf, Root>>))
NotStrings == {JNull, JNumber, JArray, JObject(<<>>)}
NotMappings == {JNull, JNumber, JArray, RmRfRoot}

OtherToolNames ==
    {Absent, JNull, JNumber, JArray, JStr(<<>>), JStr(<<"b", "a", "s", "h">>),
     JStr(<<"B", "A", "S", "H">>), JStr(<<"W", "r", "i", "t", "e">>),
     JStr(Bash \o <<" ">>)}

OtherToolDocuments ==
    {Document(JObject(Members(n, i))) :
        n \in OtherToolNames,
        i \in {Absent, JObject(<<>>), JObject([command |-> RmRfRoot]),
               JObject([command |-> JNull])} \cup NotMappings}

BashDocuments ==
    {Document(JObject(Members(JStr(Bash), i))) :
        i \in {Absent, JObject(<<>>)} \cup NotMappings
              \cup {JObject([command |-> c]) : c \in NotStrings}
              \cup {JObject([command |-> JStr(c)]) : c \in Commands}}

Inputs ==
    InvalidDocuments \cup NotObjectDocuments \cup OtherToolDocuments
        \cup BashDocuments

-----------------------------------------------------------------------------
(* The records the hook prints: the dict handed to json.dumps *)

Approve == [decision |-> "approve"]
ApproveWarning(w) == [decision |-> "approve", warning |-> w]
Block(r) == [decision |-> "block", reason |-> r]

\* The state in which main() starts on the document doc.
Restarted(doc) ==
    /\ stdin' = doc
    /\ pc' = "start"
    /\ input_data' = Unset
    /\ tool_name' = Unset
    /\ tool_input' = Unset
    /\ command' = Unset
    /\ verdict' = <<FALSE, "">>
    /\ exc' = NoException
    /\ stdout' = <<>>
    /\ stderr' = <<>>
    /\ exit_status' = -1

-----------------------------------------------------------------------------
(* main(), lines 32-64, and the process exit of lines 66-67 *)

Init ==
    /\ DANGEROUS_RM_PATTERNS = DangerousRmPatternList
    /\ stdin \in Inputs
    /\ pc = "start"
    /\ input_data = Unset
    /\ tool_name = Unset
    /\ tool_input = Unset
    /\ command = Unset
    /\ verdict = <<FALSE, "">>
    /\ exc = NoException
    /\ stdout = <<>>
    /\ stderr = <<>>
    /\ exit_status = -1
    /\ history = {}

\* Line 35: input_data = json.loads(sys.stdin.read())
ParseInput ==
    /\ pc = "start"
    /\ LET r == json_loads(stdin)
       IN  IF r.raised
           THEN /\ exc' = r.exc
                /\ pc' = "except"
                /\ UNCHANGED input_data
           ELSE /\ input_data' = r.value
                /\ pc' = "get_fields"
                /\ UNCHANGED exc
    /\ UNCHANGED <<DANGEROUS_RM_PATTERNS, stdin, tool_name, tool_input, command,
                   verdict, stdout, stderr, exit_status, history>>

\* Lines 37-38: tool_name and tool_input, with their defaults "" and {}.
GetFields ==
    /\ pc = "get_fields"
    /\ LET n == dict_get(input_data, "tool_name", JStr(<<>>))
           i == dict_get(input_data, "tool_input", JObject(<<>>))
       IN  IF n.raised
           THEN /\ exc' = n.exc
                /\ pc' = "except"
                /\ UNCHANGED <<tool_name, tool_input>>
           ELSE /\ tool_name' = n.value
                /\ tool_input' = i.value
                /\ pc' = "check_tool"
                /\ UNCHANGED exc
    /\ UNCHANGED <<DANGEROUS_RM_PATTERNS, stdin, input_data, command, verdict,
                   stdout, stderr, exit_status, history>>

\* The comparison of line 41 done without regard to letter case.
IsBashAnyCase(name) ==
    /\ name.type = "string"
    /\ LowerAll(name.chars) = LowerAll(Bash)

\* Line 41: tool_name != "Bash" is false only for the str "Bash".
IsBash(name) == name = JStr(Bash)

\* Lines 41-44 with the return of line 44 left out.
CheckToolNameNoReturn ==
    /\ pc = "check_tool"
    /\ stdout' = IF IsBash(tool_name) THEN stdout ELSE Append(stdout, Approve)
    /\ pc' = "get_command"
    /\ UNCHANGED <<DANGEROUS_RM_PATTERNS, stdin, input_data, tool_name, tool_input,
                   command, verdict, exc, stderr, exit_status, history>>

\* Lines 41-44: any tool but Bash is approved at once.
CheckToolName ==
    /\ pc = "check_tool"
    /\ IF IsBash(tool_name)
       THEN /\ pc' = "get_command"
            /\ UNCHANGED stdout
       ELSE /\ stdout' = Append(stdout, Approve)
            /\ pc' = "return"
    /\ UNCHANGED <<DANGEROUS_RM_PATTERNS, stdin, input_data, tool_name, tool_input,
                   command, verdict, exc, stderr, exit_status, history>>

\* Line 46: command = tool_input.get("command", "")
GetCommand ==
    /\ pc = "get_command"
    /\ LET c == dict_get(tool_input, "command", JStr(<<>>))
       IN  IF c.raised
           THEN /\ exc' = c.exc
                /\ pc' = "except"
                /\ UNCHANGED command
           ELSE /\ command' = c.value
                /\ pc' = "check_command"
                /\ UNCHANGED exc
    /\ UNCHANGED <<DANGEROUS_RM_PATTERNS, stdin, input_data, tool_name, tool_input,
                   verdict, stdout, stderr, exit_status, history>>

\* Line 49 in a version whose loop removes each rule it has tried.
CheckCommandConsuming ==
    /\ pc = "check_command"
    /\ LET v == check_dangerous_command(DANGEROUS_RM_PATTERNS, command)
       IN  IF v.raised
           THEN /\ exc' = v.exc
                /\ pc' = "except"
                /\ UNCHANGED <<verdict, DANGEROUS_RM_PATTERNS>>
           ELSE /\ verdict' = v.value
                /\ pc' = "emit"
                /\ DANGEROUS_RM_PATTERNS' =
                       IF v.value[1] /\ DANGEROUS_RM_PATTERNS # <<>>
                       THEN Tail(DANGEROUS_RM_PATTERNS)
                       ELSE DANGEROUS_RM_PATTERNS
                /\ UNCHANGED exc
    /\ UNCHANGED <<stdin, input_data, tool_name, tool_input,
                   command, stdout, stderr, exit_status, history>>

\* Line 49: is_dangerous, reason = check_dangerous_command(command)
CheckCommand ==
    /\ pc = "check_command"
    /\ LET v == check_dangerous_command(DANGEROUS_RM_PATTERNS, command)
       IN  IF v.raised
           THEN /\ exc' = v.exc
                /\ pc' = "except"
                /\ UNCHANGED verdict
           ELSE /\ verdict' = v.value
                /\ pc' = "emit"
                /\ UNCHANGED exc
    /\ UNCHANGED <<DANGEROUS_RM_PATTERNS, stdin, input_data, tool_name, tool_input,
                   command, stdout, stderr, exit_status, history>>

\* Lines 51-57 with the two branches exchanged.
EmitDecisionInverted ==
    /\ pc = "emit"
    /\ stdout' = Append(stdout, IF verdict[1] THEN Approve ELSE Block(verdict[2]))
    /\ pc' = "return"
    /\ UNCHANGED <<DANGEROUS_RM_PATTERNS, stdin, input_data, tool_name, tool_input,
                   command, verdict, exc, stderr, exit_status, history>>

\* Lines 51-57: print the block record with its reason, or the approve record.
EmitDecision ==
    /\ pc = "emit"
    /\ stdout' = Append(stdout, IF verdict[1] THEN Block(verdict[2]) ELSE Approve)
    /\ pc' = "return"
    /\ UNCHANGED <<DANGEROUS_RM_PATTERNS, stdin, input_data, tool_name, tool_input,
                   command, verdict, exc, stderr, exit_status, history>>

\* A handler for ValueError alone, the base class of JSONDecodeError.
CatchesValueError(class) == class = "JSONDecodeError"

\* Line 59: except Exception catches every exception the try block raises.
Catches(class) == class \in {"JSONDecodeError", "AttributeError", "TypeError"}

\* Lines 59-64 failing closed: the handler prints a block record.
HandleExceptionBlocking ==
    /\ pc = "except"
    /\ stderr' = Append(stderr, Block("Hook error: " \o exc.msg))
    /\ pc' = "return"
    /\ UNCHANGED <<DANGEROUS_RM_PATTERNS, stdin, input_data, tool_name, tool_input,
                   command, verdict, exc, stdout, exit_status, history>>

\* Lines 59-64: a caught exception is reported on standard error as an approve
\* record with a warning; one that is not caught leaves main.
HandleException ==
    /\ pc = "except"
    /\ IF Catches(exc.class)
       THEN /\ stderr' = Append(stderr, ApproveWarning("Hook error: " \o exc.msg))
            /\ pc' = "return"
       ELSE /\ pc' = "uncaught"
            /\ UNCHANGED stderr
    /\ UNCHANGED <<DANGEROUS_RM_PATTERNS, stdin, input_data, tool_name, tool_input,
                   command, verdict, exc, stdout, exit_status, history>>

\* Lines 66-67: the process ends with status 0 when main returns, and with
\* status 1 when an exception leaves main.
Exit ==
    /\ pc \in {"return", "uncaught"}
    /\ exit_status' = IF pc = "return" THEN 0 ELSE 1
    /\ pc' = "done"
    /\ UNCHANGED <<DANGEROUS_RM_PATTERNS, stdin, input_data, tool_name, tool_input,
                   command, verdict, exc, stdout, stderr, history>>

Next ==
    \/ ParseInput
    \/ GetFields
    \/ CheckToolName
    \/ GetCommand
    \/ CheckCommand
    \/ EmitDecision
    \/ HandleException
    \/ Exit

Spec == Init /\ [][Next]_vars

\* Every step of a run is taken: the interpreter runs main to its end.
FairSpec == Spec /\ WF_vars(Next)

-----------------------------------------------------------------------------
(* Several runs in a row that share the rule list *)

\* What one run printed.
Decision == [out |-> stdout, err |-> stderr]

BashCommand(c) == Document(JObject(Members(JStr(Bash), JObject([command |-> JStr(c)]))))

SeqInputs ==
    {[valid |-> FALSE, error |-> "Expecting value: line 1 column 1 (char 0)"],
     Document(JArray),
     Document(JObject(Members(JStr(<<"W", "r", "i", "t", "e">>),
                              JObject([command |-> RmRfRoot])))),
     Document(JObject(Members(JStr(Bash), JArray))),
     Document(JObject(Members(JStr(Bash), JObject([command |-> JNumber])))),
     BashCommand(JoinSpace(<<Rm, FlagRf, Root>>)),
     BashCommand(JoinSpace(<<Rm, FlagRf, <<".", ".">>>>)),
     BashCommand(LsLaHome)}

InitSeq == Init /\ stdin \in SeqInputs

\* The next run starts: the finished run is recorded, main() starts on another
\* document, and the module-level rule list is the one the last run left.
Reinvoke ==
    /\ pc = "done"
    /\ history' = history \cup {[request |-> stdin, decision |-> Decision]}
    /\ \E doc \in SeqInputs : Restarted(doc)
    /\ UNCHANGED DANGEROUS_RM_PATTERNS

NextSeq == Next \/ Reinvoke

SpecSeq == InitSeq /\ [][NextSeq]_vars

-----------------------------------------------------------------------------
(* Reading a finished run *)

Done == pc = "done"

\* The request is a JSON object.
IsObjectRequest == stdin.valid /\ stdin.value.type = "object"

RequestField(key) ==
    IF key \in DOMAIN stdin.value.members THEN stdin.value.members[key] ELSE Absent

\* tool_name is exactly the string "Bash".
IsBashRequest == IsObjectRequest /\ RequestField("tool_name") = JStr(Bash)

\* tool_input.command of the request, Absent when nothing is there.
RequestCommand ==
    LET i == RequestField("tool_input")
    IN  IF i.type = "object" /\ "command" \in DOMAIN i.members
        THEN i.members["command"] ELSE Absent

\* A Bash request whose tool_input is a mapping that holds a string command.
HasStringCommand == IsBashRequest /\ RequestCommand.type = "string"

Blocked == Len(stdout) = 1 /\ stdout[1].decision = "block" /\ stderr = <<>>
BlockedBy(text) == stdout = <<Block(BlockedPrefix \o text)>> /\ stderr = <<>>
ApprovedNoWarning == stdout = <<Approve>> /\ stderr = <<>>

\* lit occurs in s, letter case aside.
ContainsIgnoreCase(s, lit) ==
    \E j \in 0..(Len(s) - Len(lit)) :
        \A k \in 1..Len(lit) : Lower(s[j + k]) = Lower(lit[k])

\* Rule i of the source's list matches the command.
RuleMatches(i, chars) == re_search(DangerousRmPatternList[i], JStr(chars), TRUE).value

\* The end of the maximal run of whitespace, or of other characters, from j.
RunEnd(s, j) ==
    CHOOSE k \in (j + 1)..(Len(s) + 1) :
        /\ \A m \in j..(k - 1) : IsSpace(s[m]) = IsSpace(s[j])
        /\ k = Len(s) + 1 \/ IsSpace(s[k]) # IsSpace(s[j])

\* The maximal runs of s from j on: tokens and whitespace runs in turn.
RECURSIVE Pieces(_, _)
Pieces(s, j) ==
    IF j > Len(s) THEN <<>>
    ELSE <<SubSeq(s, j, RunEnd(s, j) - 1)>> \o Pieces(s, RunEnd(s, j))

TokensOf(s) == LET p == Pieces(s, 1) IN [i \in 1..((Len(p) + 1) \div 2) |-> p[2 * i - 1]]
GapsOf(s) == LET p == Pieces(s, 1) IN [i \in 1..(Len(p) \div 2) |-> p[2 * i]]

\* s is rm, one of the three flag forms of the rules, and a target, with
\* whitespace between them and nowhere else.
IsRmFlagsTarget(s) ==
    /\ s # <<>>
    /\ ~IsSpace(s[1])
    /\ ~IsSpace(s[Len(s)])
    /\ LET t == TokensOf(s)
       IN  /\ Len(t) >= 3
           /\ t[1] = Rm
           /\ SubSeq(t, 2, Len(t) - 1) \in RuleFlags

\* What the hook prints for a string command, computed from the source's list.
OutcomeFor(chars) ==
    LET v == check_dangerous_command(DangerousRmPatternList, JStr(chars)).value
    IN  IF v[1] THEN Block(v[2]) ELSE Approve

-----------------------------------------------------------------------------
(* The claims *)

\* C1: a Bash request whose string command contains, in any letter case and
\* anywhere, "rm -rf " followed by /, ~, $HOME, .., * or . is Blocked.
C1_RmRfTargetsBlocked ==
    (/\ Done
     /\ HasStringCommand
     /\ \E i \in 1..Len(RuleTargets) :
            ContainsIgnoreCase(RequestCommand.chars,
                               JoinSpace(<<Rm, FlagRf, RuleTargets[i]>>)))
        => Blocked

\* C1 witness: RM -RF /TMP/SAFE in upper case, inside other text, was blocked.
C1_Witness ==
    /\ Done
    /\ HasStringCommand
    /\ RequestCommand.chars =
           EchoHiThen \o UpperAll(JoinSpace(<<Rm, FlagRf, TmpSafe>>))
               \o AndEchoDone
    /\ Blocked

\* C2: a request whose tool_name is not exactly "Bash" is Approved without a
\* warning, whatever its tool_input.
C2_OtherToolsApproved ==
    (Done /\ IsObjectRequest /\ RequestField("tool_name") # JStr(Bash))
        => ApprovedNoWarning

\* C2 witness: tool "bash" with the command rm -rf / was approved.
C2_Witness ==
    /\ Done
    /\ IsObjectRequest
    /\ RequestField("tool_name") = JStr(<<"b", "a", "s", "h">>)
    /\ RequestField("tool_input") = JObject([command |-> RmRfRoot])
    /\ ApprovedNoWarning

\* The request makes a step of the run fault: the text is not JSON, the value is
\* not an object, or, for Bash, tool_input is not a mapping or command not a
\* string.
FaultyRequest ==
    \/ ~stdin.valid
    \/ stdin.value.type # "object"
    \/ /\ IsBashRequest
       /\ RequestField("tool_input").type \notin {"absent", "object"}
    \/ /\ IsBashRequest
       /\ RequestCommand.type \notin {"absent", "string"}

\* C3: a run in which a step faults ends Approved with the warning
\* "Hook error: <description of the fault>", never Blocked and never without
\* the warning.
C3_FailOpen ==
    (Done /\ (FaultyRequest \/ exc # NoException))
        => /\ exc # NoException
           /\ stdout = <<>>
           /\ stderr = <<ApproveWarning("Hook error: " \o exc.msg)>>

\* C3 witness: Bash with a list as tool_input ended with the warning of the
\* AttributeError.
C3_Witness ==
    /\ Done
    /\ IsBashRequest
    /\ RequestField("tool_input") = JArray
    /\ stderr = <<ApproveWarning("Hook error: 'list' object has no attribute 'get'")>>

\* The first rule of the list that matches.
FirstMatching(chars) ==
    CHOOSE i \in 1..Len(DangerousRmPatternList) :
        /\ RuleMatches(i, chars)
        /\ \A j \in 1..(i - 1) : ~RuleMatches(j, chars)

\* C4: when several rules match, the reason names the pattern text of the
\* lowest-indexed matching rule, wherever the matches are in the text: rm -rf /
\* reports rule 1, and rm -rf .. the rule of "..", not the rule of ".".
C4_FirstMatchWins ==
    (Done /\ HasStringCommand)
        => LET c == RequestCommand.chars
           IN  /\ (\E i \in 1..Len(DangerousRmPatternList) : RuleMatches(i, c))
                    => BlockedBy(DangerousRmPatternList[FirstMatching(c)].text)
               /\ ContainsIgnoreCase(c, JoinSpace(<<Rm, FlagRf, Root>>))
                    => BlockedBy("rm\\s+-rf\\s+/")
               /\ c = JoinSpace(<<Rm, FlagRf, <<".", ".">>>>)
                    => BlockedBy("rm\\s+-rf\\s+\\.\\.")

\* C4 witness: rm -rf * ; rm -rf / matches rule 5 first in the text and rule 1
\* after it, and rule 1 was reported.
C4_Witness ==
    /\ Done
    /\ HasStringCommand
    /\ RequestCommand.chars = StarThenRoot
    /\ RuleMatches(5, StarThenRoot)
    /\ BlockedBy("rm\\s+-rf\\s+/")

\* C5: every run prints exactly one record: without a fault one approve or block
\* record on standard output and nothing on standard error, with a fault one
\* approve record with a warning on standard error and nothing on standard
\* output.
C5_ExactlyOneDecision ==
    /\ Len(stdout) + Len(stderr) <= 1
    /\ Done =>
        /\ Len(stdout) + Len(stderr) = 1
        /\ exc = NoException =>
              /\ stderr = <<>>
              /\ \/ stdout = <<Approve>>
                 \/ /\ DOMAIN stdout[1] = {"decision", "reason"}
                    /\ stdout[1].decision = "block"
        /\ exc # NoException =>
              /\ stdout = <<>>
              /\ DOMAIN stderr[1] = {"decision", "warning"}
              /\ stderr[1].decision = "approve"

\* C5 witness: a run that faulted on a command that is not a string printed one
\* record, on standard error.
C5_Witness ==
    /\ Done
    /\ exc.class = "TypeError"
    /\ stdout = <<>>
    /\ Len(stderr) = 1

\* The command a Bash request is checked with: "" when tool_input or its
\* command key is absent.
EffectiveCommand ==
    IF RequestCommand = Absent THEN <<>> ELSE RequestCommand.chars

\* C6: a Bash request whose command matches none of the eight rules is Approved
\* without a warning: ls -la /home, rm file.txt, and the empty command of a
\* request without command or without tool_input.
C6_NoMatchApproved ==
    (/\ Done
     /\ IsBashRequest
     /\ RequestField("tool_input").type \in {"absent", "object"}
     /\ RequestCommand.type \in {"absent", "string"})
        => /\ (\A i \in 1..Len(DangerousRmPatternList) :
                    ~RuleMatches(i, EffectiveCommand))
                => ApprovedNoWarning
           /\ EffectiveCommand \in {<<>>, LsLaHome, JoinSpace(<<Rm, FileTxt>>)}
                => ApprovedNoWarning

\* C6 witness: Bash without tool_input was approved.
C6_Witness ==
    /\ Done
    /\ IsBashRequest
    /\ RequestField("tool_input") = Absent
    /\ command = JStr(<<>>)
    /\ ApprovedNoWarning

\* C7: every run ends, with exit status 0, and at no time with another status.
C7_ExitsWithZero ==
    /\ <>(pc = "done" /\ exit_status = 0)
    /\ [](exit_status \in {-1, 0})

\* C7 witness: a run on a document that is not JSON ended with status 0.
C7_Witness == Done /\ ~stdin.valid /\ exit_status = 0

\* C8: the decision depends on the request alone: a request evaluated again,
\* after any other requests, gets the decision it got before, and the rule list
\* is the same before and after every run.
C8_NoHiddenState ==
    /\ DANGEROUS_RM_PATTERNS = DangerousRmPatternList
    /\ \A p, q \in history : p.request = q.request => p.decision = q.decision
    /\ Done => \A p \in history : p.request = stdin => p.decision = Decision

\* C8 witness: rm -rf / was blocked a second time, after at least two other
\* requests.
C8_Witness ==
    /\ Done
    /\ stdin = BashCommand(JoinSpace(<<Rm, FlagRf, Root>>))
    /\ Blocked
    /\ \E p \in history : p.request = stdin
    /\ Cardinality(history) >= 3

\* C9 as stated: with the blanks between rm, the flags and the target replaced
\* by any runs of whitespace, the run prints what it prints for single blanks.
C9_AnyWhitespace ==
    (Done /\ HasStringCommand /\ IsRmFlagsTarget(RequestCommand.chars))
        => /\ stdout = <<OutcomeFor(JoinSpace(TokensOf(RequestCommand.chars)))>>
           /\ stderr = <<>>

\* The run between --recursive and the target holds a line feed.
LineFeedAfterRecursive(s) ==
    /\ TokensOf(s)[2] = FlagRecursive
    /\ \E m \in 1..Len(GapsOf(s)[2]) : GapsOf(s)[2][m] = "\n"

\* C9 amended: the same, for every whitespace but a line feed between
\* --recursive and the target.
C9_WhitespaceButLineFeed ==
    (/\ Done
     /\ HasStringCommand
     /\ IsRmFlagsTarget(RequestCommand.chars)
     /\ ~LineFeedAfterRecursive(RequestCommand.chars))
        => /\ stdout = <<OutcomeFor(JoinSpace(TokensOf(RequestCommand.chars)))>>
           /\ stderr = <<>>

\* C9 witness: rm, a blank and a line feed, -rf, a tab, / was blocked by rule 1.
C9_Witness ==
    /\ Done
    /\ HasStringCommand
    /\ RequestCommand.chars = JoinWith(<<Rm, FlagRf, Root>>, <<<<" ", "\n">>, <<"\t">>>>)
    /\ BlockedBy("rm\\s+-rf\\s+/")

\* The command is rm --recursive <path> with single blanks.
IsRmRecursivePath(s) ==
    /\ Len(TokensOf(s)) = 3
    /\ s = JoinSpace(<<Rm, FlagRecursive, TokensOf(s)[3]>>)

PathOf(s) == TokensOf(s)[3]
EndsInSlash(path) == path[Len(path)] = "/"
HasSlash(path) == \E m \in 1..Len(path) : path[m] = "/"

\* C10 as stated: rm --recursive <path> is blocked by rule 8 when the path ends
\* in /, and approved when it does not (and rules 1 to 7 do not match).
C10_PathEndingInSlash ==
    (Done /\ HasStringCommand /\ IsRmRecursivePath(RequestCommand.chars))
        => LET c == RequestCommand.chars
           IN  /\ EndsInSlash(PathOf(c)) => BlockedBy("rm\\s+--recursive.*/")
               /\ (/\ ~EndsInSlash(PathOf(c))
                   /\ \A i \in 1..7 : ~RuleMatches(i, c))
                    => ApprovedNoWarning

\* C10 amended: rm --recursive <path> is blocked by rule 8 when the path holds a
\* / anywhere, and approved when it holds none.
C10_PathWithSlash ==
    (Done /\ HasStringCommand /\ IsRmRecursivePath(RequestCommand.chars))
        => LET c == RequestCommand.chars
           IN  /\ HasSlash(PathOf(c)) => BlockedBy("rm\\s+--recursive.*/")
               /\ ~HasSlash(PathOf(c)) => ApprovedNoWarning

\* C10 witness: rm --recursive foo/bar, whose path does not end in /, was
\* blocked by rule 8.
C10_Witness ==
    /\ Done
    /\ HasStringCommand
    /\ RequestCommand.chars = JoinSpace(<<Rm, FlagRecursive, FooBar>>)
    /\ BlockedBy("rm\\s+--recursive.*/")

=============================================================================
